---- MODULE Spec2Model ----
(***************************************************************************)
(* Model of the viewport layout tree (game/src/viewport.rs) and of the     *)
(* asynchronous texture upload pump (game/src/gameplay.rs).                *)
(***************************************************************************)
EXTENDS Integers, Sequences, FiniteSets, TLC

VARIABLES
    db,         \* the ViewportDB
    panicked,   \* TRUE once a panic!/unwrap()/unimplemented!() has unwound the thread
    overflow_checks, \* the build: integer overflow panics (debug) or wraps (release)
    allocated,  \* every ViewportNodeID that was ever a key of db.nodes
    hist,       \* the last operations (at most two), each with the db it ran on
                \* and what it handed out
    cubemap_face_requests,  \* Gameplay.cubemap_face_requests
    texture2d_requests,     \* Gameplay.texture2d_requests
    futures,    \* the state of each scheduled task, as its future shows it
    gpu,        \* the sub-image writes issued so far, per kind of texture array
    pc,         \* where the render thread is in Gameplay::draw
    pump_start  \* what the pump now running found when it was called

viewport_vars == <<db, overflow_checks, allocated, hist>>
gameplay_vars ==
    <<cubemap_face_requests, texture2d_requests, futures, gpu, pc, pump_start>>
vars == <<viewport_vars, panicked, gameplay_vars>>

(***************************************************************************)
(* Bounds of the model.                                                    *)
(***************************************************************************)
\* split is not taken once highest_id would exceed MaxId
MaxId == 6
\* random() clear colours are drawn from 1..NbColors
NbColors == 1
\* width and height of the rectangles given to visit() range over 0..MaxExtent
MaxExtent == 2
\* the canvas of the input handler is CanvasW x CanvasH pixels
CanvasW == 3
CanvasH == 2
\* Gameplay::new schedules the first MaxCubemapFaces cubemap faces and the
\* first MaxTextures textures of its lists
MaxCubemapFaces == 1
MaxTextures == 2

(***************************************************************************)
(* Option<T>: None is the empty set, Some(x) the singleton.                *)
(***************************************************************************)
None == {}
Some(x) == {x}
is_some(o) == o # {}
unwrap(o) == CHOOSE x \in o : TRUE

(***************************************************************************)
(* u32 values are kept as two 16-bit limbs <<hi, lo>>, so that sums up to  *)
(* and beyond 2^32 are computed exactly and the wrap of a u32 addition is  *)
(* visible.  A limb pair whose hi is 2^16 or more does not fit a u32.      *)
(***************************************************************************)
Limb == 2^16
u32(n) == <<n \div Limb, n % Limb>>
u32_MAX == <<Limb - 1, Limb - 1>>
wide_add(a, b) == <<a[1] + b[1] + ((a[2] + b[2]) \div Limb), (a[2] + b[2]) % Limb>>
fits_u32(a) == a[1] < Limb
wrapping(a) == <<a[1] % Limb, a[2]>>
u32_sub(a, b) ==
    IF a[2] >= b[2] THEN <<a[1] - b[1], a[2] - b[2]>>
    ELSE <<a[1] - b[1] - 1, a[2] + Limb - b[2]>>
u32_half(a) == <<a[1] \div 2, (a[2] + (a[1] % 2) * Limb) \div 2>>
wide_lt(a, b) == a[1] < b[1] \/ (a[1] = b[1] /\ a[2] < b[2])
wide_le(a, b) == a = b \/ wide_lt(a, b)

(***************************************************************************)
(* ViewportNode, ViewportInfo, Split.                                      *)
(***************************************************************************)
ViewportInfo(clear_color) == [clear_color |-> clear_color]
\* Rgba::default(), the clear colour of ViewportInfo::default(); random()
\* colours are opaque and so never equal to it
DefaultColor == 0
\* mutant: every Leaf is made without a parent
Whole_no_parent(parent, info) == [kind |-> "Whole", parent |-> None, info |-> info]
Whole(parent, info) == [kind |-> "Whole", parent |-> parent, info |-> info]
SplitSpec(direction) ==
    [direction |-> direction, origin |-> "Middle", unit |-> "Ratio", value |-> 0]
SplitNode(parent, split, children) ==
    [kind |-> "Split", parent |-> parent, split |-> split, children |-> children]
ViewportNode_default == Whole(None, ViewportInfo(DefaultColor))

insert(m, k, v) == [x \in (DOMAIN m) \cup {k} |-> IF x = k THEN v ELSE m[x]]
\* mutant: the key stays in the map
remove_nothing(m, k) == m
remove(m, k) == [x \in (DOMAIN m) \ {k} |-> m[x]]

\* the value of an operation on a ViewportDB: the db it leaves, and whether it panicked
Ok(self) == [db |-> self, panicked |-> FALSE]
\* mutant: the panic is swallowed and the method returns
Panic_returns(self) == [db |-> self, panicked |-> FALSE]
Panic(self) == [db |-> self, panicked |-> TRUE]

BorderPx == 1

ViewportDB_new ==
    [ nodes      |-> insert(<<>>, 0, ViewportNode_default),
      highest_id |-> 0,
      root       |-> 0,
      focused    |-> 0,
      hovered    |-> None,
      border_px  |-> BorderPx ]

hover(self, id) == [self EXCEPT !.hovered = id]
\* mutant: focus() forgets the ID it is given
focus_ignored(self, id) == self
focus(self, id) == [self EXCEPT !.focused = id]

\* mutant: the first child is recorded twice
split_node_same_child(parent, direction, c0_id, c1_id) ==
    SplitNode(parent, SplitSpec(direction), <<c0_id, c0_id>>)

\* mutant: every split is recorded as Horizontal
split_node_horizontal(parent, direction, c0_id, c1_id) ==
    SplitNode(parent, SplitSpec("Horizontal"), <<c0_id, c1_id>>)

\* the node split() leaves in place of the focused Leaf
split_node(parent, direction, c0_id, c1_id) ==
    SplitNode(parent, SplitSpec(direction), <<c0_id, c1_id>>)

\* mutant: the IDs are taken from the number of live nodes, so that the IDs of
\* merged nodes come back
child_ids_from_len(self) ==
    <<Cardinality(DOMAIN self.nodes), Cardinality(DOMAIN self.nodes) + 1>>

\* the IDs split() gives the two children
child_ids(self) == <<self.highest_id + 1, self.highest_id + 2>>

\* split(direction); rnd is the colour the three random() calls produce
split(self, direction, rnd) ==
    LET id == self.focused
        c0_id == child_ids(self)[1]
        c1_id == child_ids(self)[2]
    IN  IF id \notin DOMAIN self.nodes THEN Panic(self)
        ELSE IF self.nodes[id].kind = "Split" THEN Panic(self)
        ELSE
          LET node == self.nodes[id]
              info == node.info
              nodes1 == [self.nodes EXCEPT
                            ![id] = split_node(node.parent, direction, c0_id, c1_id)]
              c0_info == info
              c1_info == [info EXCEPT !.clear_color = rnd]
              c0_node == Whole(Some(id), c0_info)
              c1_node == Whole(Some(id), c1_info)
              self1 == focus([self EXCEPT !.nodes = nodes1,
                                          !.highest_id = self.highest_id + 2], c0_id)
          IN  Ok([self1 EXCEPT
                    !.nodes = insert(insert(nodes1, c0_id, c0_node), c1_id, c1_node)])

split_h(self, rnd) == split(self, "Horizontal", rnd)
\* mutant: split_v splits as split_h does
split_v_horizontal(self, rnd) == split(self, "Horizontal", rnd)
split_v(self, rnd) == split(self, "Vertical", rnd)

\* mutant: the collapsed node loses its parent
merged_node_no_parent(info, parent) == Whole(None, info)

\* the node merge() leaves in place of the parent Split
merged_node(info, parent) == Whole(parent, info)

\* mutant: the parent is unwrapped instead of matched, a focused root panics
merge_unwrap_parent(self) ==
    LET focus_id == self.focused
    IN  IF focus_id \notin DOMAIN self.nodes THEN Panic(self)
        ELSE IF self.nodes[focus_id].kind = "Split" THEN Panic(self)
        ELSE IF self.nodes[focus_id].parent = None THEN Panic(self)
        ELSE
          LET info == self.nodes[focus_id].info
              merge_id == unwrap(self.nodes[focus_id].parent)
          IN  IF merge_id \notin DOMAIN self.nodes THEN Panic(self)
              ELSE IF self.nodes[merge_id].kind = "Whole" THEN Panic(self)
              ELSE
                LET m == self.nodes[merge_id]
                    nodes1 == [self.nodes EXCEPT
                                  ![merge_id] = merged_node(info, m.parent)]
                    nodes2 == remove(nodes1, m.children[1])
                    nodes3 == remove(nodes2, m.children[2])
                IN  IF m.children[1] \notin DOMAIN nodes1
                      THEN Panic([self EXCEPT !.nodes = nodes1])
                    ELSE IF m.children[2] \notin DOMAIN nodes2
                      THEN Panic([self EXCEPT !.nodes = nodes2])
                    ELSE Ok(focus([self EXCEPT !.nodes = nodes3], merge_id))

merge(self) ==
    LET focus_id == self.focused
    IN  IF focus_id \notin DOMAIN self.nodes THEN Panic(self)
        ELSE IF self.nodes[focus_id].kind = "Split" THEN Panic(self)
        ELSE
          LET info == self.nodes[focus_id].info
              merge_opt == self.nodes[focus_id].parent
          IN  IF merge_opt = None THEN Ok(self)
              ELSE
                LET merge_id == unwrap(merge_opt)
                IN  IF merge_id \notin DOMAIN self.nodes THEN Panic(self)
                    ELSE IF self.nodes[merge_id].kind = "Whole" THEN Panic(self)
                    ELSE
                      LET m == self.nodes[merge_id]
                          c0_id == m.children[1]
                          c1_id == m.children[2]
                          nodes1 == [self.nodes EXCEPT
                                        ![merge_id] = merged_node(info, m.parent)]
                          nodes2 == remove(nodes1, c0_id)
                          nodes3 == remove(nodes2, c1_id)
                      IN  IF c0_id \notin DOMAIN nodes1
                            THEN Panic([self EXCEPT !.nodes = nodes1])
                          ELSE IF c1_id \notin DOMAIN nodes2
                            THEN Panic([self EXCEPT !.nodes = nodes2])
                          ELSE Ok(focus([self EXCEPT !.nodes = nodes3], merge_id))

(***************************************************************************)
(* visit: the calls made on the visitor, in order.  `checked` tells        *)
(* whether the build panics on integer overflow (debug) or wraps (release).*)
(***************************************************************************)
Rect(x, y, w, h) == [x |-> x, y |-> y, w |-> w, h |-> h]

AcceptLeafViewport(id, rect, info, parent, border_px) ==
    [accept |-> "leaf", id |-> id, rect |-> rect, info |-> info,
     parent |-> parent, border_px |-> border_px]
AcceptSplitViewport(id, rect, direction, distance, parent, border_px) ==
    [accept |-> "split", id |-> id, rect |-> rect, split_direction |-> direction,
     distance_from_left_or_bottom_px |-> distance,
     parent |-> parent, border_px |-> border_px]

\* what a visitor writes through its &mut arguments: None leaves the value
\* alone, Some(v) stores v
Visitor(distance, info) == [distance |-> distance, info |-> info]
\* a visitor that reads only, as ViewportPicker does
ReadOnlyVisitor == Visitor(None, None)
written(visitor_write, value) ==
    IF is_some(visitor_write) THEN unwrap(visitor_write) ELSE value

\* the first child's rectangle
split_r0(rect, direction) ==
    IF direction = "Horizontal"
    THEN [rect EXCEPT !.h = u32_half(rect.h)]
    ELSE [rect EXCEPT !.w = u32_half(rect.w)]

\* the exact value of the addition that places the second child
split_sum(rect, direction) ==
    IF direction = "Horizontal"
    THEN wide_add(rect.y, split_r0(rect, direction).h)
    ELSE wide_add(rect.x, split_r0(rect, direction).w)

\* mutant: the second child keeps the whole extent
split_r1_full_extent(rect, direction) ==
    IF direction = "Horizontal"
    THEN [rect EXCEPT !.y = wrapping(split_sum(rect, direction))]
    ELSE [rect EXCEPT !.x = wrapping(split_sum(rect, direction))]

\* the second child's rectangle, the addition wrapped to 32 bits
split_r1(rect, direction) ==
    LET r0 == split_r0(rect, direction)
    IN  IF direction = "Horizontal"
        THEN [rect EXCEPT !.h = u32_sub(rect.h, r0.h),
                          !.y = wrapping(split_sum(rect, direction))]
        ELSE [rect EXCEPT !.w = u32_sub(rect.w, r0.w),
                          !.x = wrapping(split_sum(rect, direction))]

\* mutant: the second child starts at the distance the visitor left
children_rects_at_distance(r0, r1, direction, distance) ==
    IF direction = "Horizontal"
    THEN <<r0, [r1 EXCEPT !.y = distance]>>
    ELSE <<r0, [r1 EXCEPT !.x = distance]>>

\* the rectangles of the children once accept_split_viewport has returned:
\* distance_from_left_or_bottom_px is not read again
children_rects(r0, r1, direction, distance) == <<r0, r1>>

\* the border_px a Leaf is shown with
leaf_border_px(parent, border_px) == IF is_some(parent) THEN border_px ELSE 0

RECURSIVE visit_viewport(_, _, _, _, _, _)
visit_viewport(self, id, rect, border_px, checked, visitor) ==
    IF id \notin DOMAIN self.nodes
    THEN [db |-> self, calls |-> <<>>, panicked |-> TRUE]
    ELSE
      LET node == self.nodes[id]
      IN  IF node.kind = "Split"
          THEN
            LET direction == node.split.direction
                distance == wrapping(split_sum(rect, direction))
                call == AcceptSplitViewport(id, rect, direction, distance,
                                            node.parent, border_px)
                rects == children_rects(split_r0(rect, direction),
                                        split_r1(rect, direction), direction,
                                        written(visitor.distance, distance))
                r0 == rects[1]
                r1 == rects[2]
            IN  IF checked /\ ~fits_u32(split_sum(rect, direction))
                THEN [db |-> self, calls |-> <<>>, panicked |-> TRUE]
                ELSE
                  LET v0 == visit_viewport(self, node.children[1], r0, border_px,
                                           checked, visitor)
                  IN  IF v0.panicked
                      THEN [db |-> v0.db, calls |-> <<call>> \o v0.calls,
                            panicked |-> TRUE]
                      ELSE
                        LET v1 == visit_viewport(v0.db, node.children[2], r1,
                                                 border_px, checked, visitor)
                        IN  [db |-> v1.db,
                             calls |-> <<call>> \o v0.calls \o v1.calls,
                             panicked |-> v1.panicked]
          ELSE [db |-> IF is_some(visitor.info)
                       THEN [self EXCEPT !.nodes[id].info = unwrap(visitor.info)]
                       ELSE self,
                calls |-> <<AcceptLeafViewport(id, rect, node.info, node.parent,
                                               leaf_border_px(node.parent, border_px))>>,
                panicked |-> FALSE]

\* mutant: the calls are delivered last to first
visit_reversed(self, rect, checked, visitor) ==
    LET v == visit_viewport(self, self.root, rect, self.border_px, checked, visitor)
    IN  [db |-> v.db,
         calls |-> [i \in 1 .. Len(v.calls) |-> v.calls[Len(v.calls) + 1 - i]],
         panicked |-> v.panicked]

\* mutant: the traversal leaves the focus on the root
visit_focuses_root(self, rect, checked, visitor) ==
    LET v == visit_viewport(self, self.root, rect, self.border_px, checked, visitor)
    IN  [v EXCEPT !.db = focus(v.db, self.root)]

visit(self, rect, checked, visitor) ==
    visit_viewport(self, self.root, rect, self.border_px, checked, visitor)

(***************************************************************************)
(* ViewportPicker and ViewportInputHandler.                                *)
(***************************************************************************)
Vec2(x, y) == [x |-> x, y |-> y]

\* Rect::contains_point: the pixel set [x, x+w) x [y, y+h)
contains_point(rect, p) ==
    /\ wide_le(rect.x, p.x) /\ wide_lt(p.x, wide_add(rect.x, rect.w))
    /\ wide_le(rect.y, p.y) /\ wide_lt(p.y, wide_add(rect.y, rect.h))

ViewportPicker(pos) == [pos |-> pos, found |-> None, on_border |-> None]

Picker_accept_leaf_viewport(self, args) ==
    IF contains_point(args.rect, self.pos)
    THEN [self EXCEPT !.found = Some(args.id)]
    ELSE self

\* accept_split_viewport is unimplemented!(): the picker panics when given a Split
Picker_accepts(call) == call.accept = "leaf"

\* the picker after the calls of one traversal, and whether it panicked
RECURSIVE Picker_run(_, _)
Picker_run(self, calls) ==
    IF calls = <<>> THEN [visitor |-> self, panicked |-> FALSE]
    ELSE IF ~Picker_accepts(Head(calls)) THEN [visitor |-> self, panicked |-> TRUE]
    ELSE Picker_run(Picker_accept_leaf_viewport(self, Head(calls)), Tail(calls))

saturating_sub(a, b) == IF wide_lt(a, b) THEN u32(0) ELSE u32_sub(a, b)

\* g.input.canvas_size() and the rectangle g.visit_viewports() hands to visit()
canvas_size == [w |-> u32(CanvasW), h |-> u32(CanvasH)]
canvas_rect == Rect(u32(0), u32(0), canvas_size.w, canvas_size.h)

\* on_mouse_motion, pos already rounded to u32
on_mouse_motion(self, pos, checked) ==
    LET p == Vec2(pos.x, saturating_sub(canvas_size.h, pos.y))
        v == visit(self, canvas_rect, checked, ReadOnlyVisitor)
        r == Picker_run(ViewportPicker(p), v.calls)
    IN  [db |-> IF r.panicked \/ v.panicked THEN self ELSE hover(self, r.visitor.found),
         panicked |-> r.panicked \/ v.panicked,
         visitor |-> r.visitor]

on_mouse_leave(self) == Ok(hover(self, None))

on_mouse_button(self, btn, state) ==
    IF btn = "Left" /\ state = "Down"
    THEN IF is_some(self.hovered) THEN Ok(focus(self, unwrap(self.hovered))) ELSE Ok(self)
    ELSE Ok(self)

on_key(self, sym, state, rnd) ==
    IF sym = Some("V") /\ state = "Down" THEN split_v(self, rnd)
    ELSE IF sym = Some("H") /\ state = "Down" THEN split_h(self, rnd)
    ELSE IF sym = Some("M") /\ state = "Down" THEN merge(self)
    ELSE Ok(self)

(***************************************************************************)
(* Gameplay: the requests Gameplay::new schedules, and the pumps.          *)
(***************************************************************************)
NbFaces == 6
CubemapFaces ==
    <<"PositiveX", "NegativeX", "PositiveY", "NegativeY", "PositiveZ", "NegativeZ">>
CubemapNames == <<"grouse", "aqua4", "h2s", "flame">>
TextureNames == <<"maze.png", "plasma.png", "checkerboard.png">>

CubemapFaceRequest(future, path, array_id, cubemap_index, face) ==
    [future |-> future, path |-> path, array_id |-> array_id,
     cubemap_index |-> cubemap_index, face |-> face]
Texture2DRequest(future, path, array_id, slot) ==
    [future |-> future, path |-> path, array_id |-> array_id, slot |-> slot]

\* the futures are numbered in the order g.mt.schedule() is called
NbCubemapFaceRequests == IF MaxCubemapFaces < Len(CubemapNames) * NbFaces
                         THEN MaxCubemapFaces ELSE Len(CubemapNames) * NbFaces
NbTexture2DRequests == IF MaxTextures < Len(TextureNames)
                       THEN MaxTextures ELSE Len(TextureNames)
Futures == 1 .. (NbCubemapFaceRequests + NbTexture2DRequests)

Gameplay_new_cubemap_face_requests ==
    [i \in 1 .. NbCubemapFaceRequests |->
        CubemapFaceRequest(Some(i),
                           <<CubemapNames[((i - 1) \div NbFaces) + 1],
                             CubemapFaces[((i - 1) % NbFaces) + 1]>>,
                           "cubemap::RGB8_1L_1024X1024",
                           (i - 1) \div NbFaces,
                           CubemapFaces[((i - 1) % NbFaces) + 1])]

Gameplay_new_texture2d_requests ==
    [i \in 1 .. NbTexture2DRequests |->
        Texture2DRequest(Some(NbCubemapFaceRequests + i), TextureNames[i],
                         "texture2d::RGB8_1L_256X256", i - 1)]

\* a task ends with Ok(Ok(image)), Err(io error) or Ok(Err(decode error))
Outcomes == {"Ok", "IoError", "DecodeError"}
is_complete(future) == futures[future] # "Pending"

\* the arrays Gameplay::new creates for the streamed images
CubemapArrayInfo(nb_levels, internal_format, size, nb_cubemaps) ==
    [nb_levels |-> nb_levels, internal_format |-> internal_format,
     size |-> size, nb_cubemaps |-> nb_cubemaps]
Texture2DArrayInfo(nb_levels, internal_format, size, nb_slots) ==
    [nb_levels |-> nb_levels, internal_format |-> internal_format,
     size |-> size, nb_slots |-> nb_slots]
TextureArrayInfo(array_id) ==
    IF array_id = "cubemap::RGB8_1L_1024X1024"
    THEN CubemapArrayInfo(1, "RGB8", <<1024, 1024>>, 6)
    ELSE Texture2DArrayInfo(1, "RGB8", <<256, 256>>, 3)

\* Ok(Ok(image)) with an image of another extent, or of another pixel format,
\* than the array of its request declares
MismatchOutcomes == {"OkOtherExtent", "OkOtherFormat"}
DecodedOutcomes == {"Ok"} \cup MismatchOutcomes

\* the metadata of the image a task decoded for a request of array_id
Metadata(array_id, outcome) ==
    [size |-> IF outcome = "OkOtherExtent"
              THEN <<1, 1>> ELSE TextureArrayInfo(array_id).size,
     pixel_format |-> IF outcome = "OkOtherFormat"
                      THEN "RGBA8" ELSE TextureArrayInfo(array_id).internal_format]

\* mutant: the upload takes whatever image it is given
sub_image_2d_validates_nothing(array_id, metadata) == TRUE

\* the check the upload makes before it writes: the image has the extent and
\* the pixel format the array was created with
sub_image_2d_validates(array_id, metadata) ==
    /\ metadata.size = TextureArrayInfo(array_id).size
    /\ metadata.pixel_format = TextureArrayInfo(array_id).internal_format

\* mutant: the request stays in the queue
vec_remove_nothing(v, i) == v

\* Vec::remove(i), i counted from 1
\* mutant: the requests behind the removed one go with it
vec_remove_truncate(v, i) == SubSeq(v, 1, i - 1)

vec_remove(v, i) == [j \in 1 .. (Len(v) - 1) |-> IF j < i THEN v[j] ELSE v[j + 1]]

\* the sub-image write of a request, with the image its future gave
cubemap_array_sub_image_2d(req, img) ==
    [array_id |-> req.array_id, cubemap_index |-> req.cubemap_index,
     face |-> req.face, img |-> img]

\* mutant: every texture is written to slot 0
texture2d_array_sub_image_2d_slot0(req, img) ==
    [array_id |-> req.array_id, slot |-> 0, img |-> img]

texture2d_array_sub_image_2d(req, img) ==
    [array_id |-> req.array_id, slot |-> req.slot, img |-> img]

sub_image_2d(pump, req, img) ==
    IF pump = "cubemap_faces"
    THEN cubemap_array_sub_image_2d(req, img)
    ELSE texture2d_array_sub_image_2d(req, img)

requests(pump) ==
    IF pump = "cubemap_faces" THEN cubemap_face_requests ELSE texture2d_requests

\* the render thread: idle between frames, scanning request i (i past the end:
\* the scan found nothing complete), about to remove and integrate request i,
\* or back from the pump
At(at, pump, i) == [at |-> at, pump |-> pump, i |-> i]
Idle == At("idle", "none", 0)

\* what a pump finds when it is called: its queue, the writes issued so far
\* and the futures of its queue that are complete; and the futures that were
\* complete when the frame's first pump was called
NoPump == [pump |-> "none"]
PumpStart(pump) ==
    [pump |-> pump,
     requests |-> requests(pump),
     gpu |-> gpu[pump],
     complete |-> {f \in Futures :
                    /\ \E i \in 1 .. Len(requests(pump)) : requests(pump)[i].future = Some(f)
                    /\ is_complete(f)},
     frame |-> IF pump = "cubemap_faces"
               THEN {f \in Futures : is_complete(f)}
               ELSE pump_start.frame]

\* mutant: the pump returns after its first integration
after_integration_return(pump) == At("returned", pump, 0)

\* mutant: after an integration the request now at the front is taken without
\* a scan
after_integration_take_front(pump) == At("integrate", pump, 1)

\* mutant: after an integration the scan goes on from where it was
after_integration_continue(pump) == At("scan", pump, pc.i)

\* after an integration the outer loop runs again: a new scan from the front
after_integration(pump) == At("scan", pump, 1)

\* System::draw calls pump_cubemap_faces
Draw ==
    /\ ~panicked
    /\ pc = Idle
    /\ pc' = At("scan", "cubemap_faces", 1)
    /\ pump_start' = PumpStart("cubemap_faces")
    /\ UNCHANGED <<viewport_vars, panicked, cubemap_face_requests,
                   texture2d_requests, futures, gpu>>

\* mutant: the scan ends one request early, the last one is never polled
Scan_skips_last ==
    /\ ~panicked
    /\ pc.at = "scan"
    /\ pc' = IF pc.i >= Len(requests(pc.pump))
             THEN At("returned", pc.pump, 0)
             ELSE IF is_complete(unwrap(requests(pc.pump)[pc.i].future))
             THEN At("integrate", pc.pump, pc.i)
             ELSE At("scan", pc.pump, pc.i + 1)
    /\ UNCHANGED <<viewport_vars, panicked, cubemap_face_requests,
                   texture2d_requests, futures, gpu, pump_start>>

\* mutant: the scan gives up at the first request that is not complete
Scan_front_only ==
    /\ ~panicked
    /\ pc.at = "scan"
    /\ pc' = IF pc.i > Len(requests(pc.pump))
             THEN At("returned", pc.pump, 0)
             ELSE IF is_complete(unwrap(requests(pc.pump)[pc.i].future))
             THEN At("integrate", pc.pump, pc.i)
             ELSE At("returned", pc.pump, 0)
    /\ UNCHANGED <<viewport_vars, panicked, cubemap_face_requests,
                   texture2d_requests, futures, gpu, pump_start>>

\* one turn of the inner for loop: is_complete() of request i, or the end of the scan
Scan ==
    /\ ~panicked
    /\ pc.at = "scan"
    /\ pc' = IF pc.i > Len(requests(pc.pump))
             THEN At("returned", pc.pump, 0)
             ELSE IF is_complete(unwrap(requests(pc.pump)[pc.i].future))
             THEN At("integrate", pc.pump, pc.i)
             ELSE At("scan", pc.pump, pc.i + 1)
    /\ UNCHANGED <<viewport_vars, panicked, cubemap_face_requests,
                   texture2d_requests, futures, gpu, pump_start>>

\* Some(i): remove(i), future.take().unwrap().wait(), then the sub-image write
\* or unimplemented!()
Integrate ==
    /\ ~panicked
    /\ pc.at = "integrate"
    /\ LET req == requests(pc.pump)[pc.i]
           future == unwrap(req.future)
       IN  /\ is_complete(future)   \* wait() returns once the task is complete
           /\ IF pc.pump = "cubemap_faces"
              THEN /\ cubemap_face_requests' = vec_remove(cubemap_face_requests, pc.i)
                   /\ UNCHANGED texture2d_requests
              ELSE /\ texture2d_requests' = vec_remove(texture2d_requests, pc.i)
                   /\ UNCHANGED cubemap_face_requests
           /\ IF /\ futures[future] \in DecodedOutcomes
                 /\ sub_image_2d_validates(req.array_id,
                                           Metadata(req.array_id, futures[future]))
              THEN /\ gpu' = [gpu EXCEPT ![pc.pump] =
                                Append(@, sub_image_2d(pc.pump, req, future))]
                   /\ pc' = after_integration(pc.pump)
                   /\ UNCHANGED panicked
              ELSE /\ panicked' = TRUE
                   /\ UNCHANGED <<gpu, pc>>
    /\ UNCHANGED <<viewport_vars, futures, pump_start>>

\* pump_cubemap_faces returns and pump_texture2ds is called, or draw returns
Return ==
    /\ ~panicked
    /\ pc.at = "returned"
    /\ IF pc.pump = "cubemap_faces"
       THEN /\ pc' = At("scan", "texture2ds", 1)
            /\ pump_start' = PumpStart("texture2ds")
       ELSE /\ pc' = Idle
            /\ pump_start' = NoPump
    /\ UNCHANGED <<viewport_vars, panicked, cubemap_face_requests,
                   texture2d_requests, futures, gpu>>

\* a worker thread finishes a task, with one of `outcomes`
CompleteWith(outcomes) ==
    /\ \E f \in Futures, outcome \in outcomes :
          /\ futures[f] = "Pending"
          /\ futures' = [futures EXCEPT ![f] = outcome]
    /\ UNCHANGED <<viewport_vars, panicked, cubemap_face_requests,
                   texture2d_requests, gpu, pc, pump_start>>

Complete == CompleteWith(Outcomes)
\* a worker thread decodes an image, of any extent and pixel format
CompleteAnyImage == CompleteWith(DecodedOutcomes)
CompleteOk == CompleteWith({"Ok"})

(***************************************************************************)
(* The state machine of the viewport tree.                                 *)
(***************************************************************************)
Colors == 1 .. NbColors
Directions == {"Horizontal", "Vertical"}
Origins == {u32(0), u32_MAX}
Extents == {u32(n) : n \in 0 .. MaxExtent}
Rects == {Rect(x, y, w, h) : x \in Origins, y \in Origins, w \in Extents, h \in Extents}
ZeroRect == Rect(u32(0), u32(0), u32(0), u32(0))
Keysyms == {Some("V"), Some("H"), Some("M"), Some("A"), None}
ButtonStates == {"Down", "Up"}
MouseButtons == {"Left", "Right"}
MousePositions == {Vec2(u32(x), u32(y)) : x \in 0 .. CanvasW, y \in 0 .. CanvasH}

\* hist: split, merge and focus keep the operation before them, a visit or an
\* input event stands alone
Op(name, arg, out) ==
    [op |-> name, arg |-> arg, before |-> db, allocated |-> allocated, out |-> out]
TreeOps == {"split", "merge", "focus"}
Record(op) ==
    IF hist = <<>> \/ hist[Len(hist)].op \notin TreeOps
    THEN <<op>>
    ELSE <<hist[Len(hist)], op>>

Init ==
    /\ db = ViewportDB_new
    /\ panicked = FALSE
    /\ overflow_checks \in BOOLEAN
    /\ allocated = DOMAIN ViewportDB_new.nodes
    /\ hist = <<>>
    /\ cubemap_face_requests = Gameplay_new_cubemap_face_requests
    /\ texture2d_requests = Gameplay_new_texture2d_requests
    /\ futures = [f \in Futures |-> "Pending"]
    /\ gpu = [cubemap_faces |-> <<>>, texture2ds |-> <<>>]
    /\ pc = Idle
    /\ pump_start = NoPump

Step(name, arg, r) ==
    /\ db' = r.db
    /\ panicked' = r.panicked
    /\ allocated' = allocated \cup DOMAIN r.db.nodes
    /\ UNCHANGED <<overflow_checks, gameplay_vars>>
    /\ hist' = Record(Op(name, arg, None))

Event(name, arg, r, out) ==
    /\ db' = r.db
    /\ panicked' = r.panicked
    /\ allocated' = allocated \cup DOMAIN r.db.nodes
    /\ UNCHANGED <<overflow_checks, gameplay_vars>>
    /\ hist' = <<Op(name, arg, out)>>

DoSplit ==
    /\ ~panicked
    /\ db.highest_id + 2 <= MaxId
    /\ \E direction \in Directions, rnd \in Colors :
          Step("split", direction, split(db, direction, rnd))

DoMerge ==
    /\ ~panicked
    /\ Step("merge", None, merge(db))

\* focus(id), id a Leaf reachable from root
RECURSIVE Reachable(_, _)
Reachable(self, id) ==
    IF id \notin DOMAIN self.nodes THEN {}
    ELSE IF self.nodes[id].kind = "Whole" THEN {id}
    ELSE {id} \cup Reachable(self, self.nodes[id].children[1])
              \cup Reachable(self, self.nodes[id].children[2])

IsLeaf(self, id) == id \in DOMAIN self.nodes /\ self.nodes[id].kind = "Whole"
ReachableLeaves(self) == {id \in Reachable(self, self.root) : IsLeaf(self, id)}

DoFocus ==
    /\ ~panicked
    /\ \E id \in ReachableLeaves(db) : Step("focus", id, Ok(focus(db, id)))

\* focus(id), any id: the method does not check its argument
NodeIds == 0 .. MaxId
DoFocusAny ==
    /\ ~panicked
    /\ \E id \in NodeIds : Event("focus_any", id, Ok(focus(db, id)), None)

\* hover(id): None, the root, or the last ID there can be
HoverIds == {None, Some(0), Some(MaxId)}
DoHover ==
    /\ ~panicked
    /\ \E id \in HoverIds :
          Event("hover", id, Ok(hover(db, id)), None)

\* node_mut(id) used to rewrite the stored origin, unit and value of a Split
\* to what split() stores (Middle, Ratio, 0.) or to (RightOrTop, Px, 1.)
StoredSplits == {<<"Middle", "Ratio", 0>>, <<"RightOrTop", "Px", 1>>}
IsSplit(self, id) == id \in DOMAIN self.nodes /\ self.nodes[id].kind = "Split"
DoNodeMut ==
    /\ ~panicked
    /\ \E id \in {n \in DOMAIN db.nodes : IsSplit(db, n)},
          stored \in StoredSplits :
          Event("node_mut", id,
                Ok([db EXCEPT !.nodes[id].split =
                        [@ EXCEPT !.origin = stored[1], !.unit = stored[2],
                                  !.value = stored[3]]]),
                None)

\* visit(rect, visitor) with a visitor that writes nothing
DoVisit ==
    /\ ~panicked
    /\ \E rect \in Rects :
          LET v == visit(db, rect, overflow_checks, ReadOnlyVisitor)
          IN  Event("visit", rect, [db |-> v.db, panicked |-> v.panicked], v.calls)

\* visit(rect, visitor), rect a square with x = y, with a visitor that reads
\* only or one that sets every distance_from_left_or_bottom_px to 0
SquareRects == {rect \in Rects : rect.x = rect.y /\ rect.w = rect.h}
Visitors == {ReadOnlyVisitor, Visitor(Some(u32(0)), None)}
DoVisitSquare ==
    /\ ~panicked
    /\ \E rect \in SquareRects, visitor \in Visitors :
          LET v == visit(db, rect, overflow_checks, visitor)
          IN  Event("visit", [rect |-> rect, visitor |-> visitor],
                    [db |-> v.db, panicked |-> v.panicked], v.calls)

\* visit(rect, visitor) with a visitor that resets every Leaf's info
InfoVisitors == {Visitor(None, Some(ViewportInfo(DefaultColor)))}
DoVisitWriteInfo ==
    /\ ~panicked
    /\ \E visitor \in InfoVisitors :
          LET v == visit(db, ZeroRect, overflow_checks, visitor)
          IN  Event("visit", [rect |-> ZeroRect, visitor |-> visitor],
                    [db |-> v.db, panicked |-> v.panicked], v.calls)

OnMouseMotion ==
    /\ ~panicked
    /\ \E pos \in MousePositions :
          LET r == on_mouse_motion(db, pos, overflow_checks)
          IN  Event("on_mouse_motion", pos, r, r.visitor)

OnMouseLeave ==
    /\ ~panicked
    /\ Event("on_mouse_leave", None, on_mouse_leave(db), None)

OnMouseButton ==
    /\ ~panicked
    /\ \E btn \in MouseButtons, state \in ButtonStates :
          Event("on_mouse_button", <<btn, state>>, on_mouse_button(db, btn, state), None)

IsSplitKey(sym, state) == sym \in {Some("V"), Some("H")} /\ state = "Down"

OnKey ==
    /\ ~panicked
    /\ \E sym \in Keysyms, state \in ButtonStates, rnd \in Colors :
          /\ IsSplitKey(sym, state) => db.highest_id + 2 <= MaxId
          /\ Event("on_key", <<sym, state>>, on_key(db, sym, state, rnd), None)

\* split and merge only
NextTree == DoSplit \/ DoMerge
SpecTree == Init /\ [][NextTree]_vars

\* split, merge and visit
NextVisit == DoSplit \/ DoMerge \/ DoVisit
SpecVisit == Init /\ [][NextVisit]_vars

\* split and visit, the stored Split values being rewritten at will
NextNodeMut == DoSplit \/ DoNodeMut \/ DoVisitSquare
SpecNodeMut == Init /\ [][NextNodeMut]_vars

\* split and visit with visitors that write through their arguments
NextVisitors == DoSplit \/ DoVisitSquare \/ DoVisitWriteInfo
SpecVisitors == Init /\ [][NextVisitors]_vars

\* split, merge and focus(id)
NextFocus == DoSplit \/ DoMerge \/ DoFocus
SpecFocus == Init /\ [][NextFocus]_vars

\* the events ViewportInputHandler handles
NextInput == OnMouseMotion \/ OnMouseLeave \/ OnMouseButton \/ OnKey
SpecInput == Init /\ [][NextInput]_vars

\* the public methods of ViewportDB that change it, with any argument
NextApi == DoSplit \/ DoMerge \/ DoFocusAny \/ DoHover
SpecApi == Init /\ [][NextApi]_vars

\* the frames of Gameplay::draw and the worker threads
RenderThread == Draw \/ Scan \/ Integrate \/ Return
NextGameplay == RenderThread \/ Complete
\* the pumps do no arithmetic that can overflow: one build stands for both
InitGameplay == Init /\ overflow_checks
SpecGameplay == InitGameplay /\ [][NextGameplay]_vars

\* the frames and the worker threads, every file being read and decoded, to
\* an image of any extent and pixel format
NextUpload == RenderThread \/ CompleteAnyImage
SpecUpload == InitGameplay /\ [][NextUpload]_vars

\* every load succeeds, and does so eventually; the main loop draws frame
\* after frame
NextAllSucceed == RenderThread \/ CompleteOk
\* a load succeeds or stalls: without fairness a task need never complete
SpecStall == InitGameplay /\ [][NextAllSucceed]_vars
SpecAllSucceed ==
    /\ InitGameplay
    /\ [][NextAllSucceed]_vars
    /\ WF_vars(RenderThread)
    /\ WF_vars(CompleteOk)

\* the render thread runs on: a step it can take is taken; the worker threads
\* owe nothing
SpecRenderRuns ==
    /\ InitGameplay
    /\ [][NextGameplay]_vars
    /\ WF_vars(RenderThread)

(***************************************************************************)
(* Properties of the viewport tree.                                        *)
(***************************************************************************)
Last == hist[Len(hist)]
LastIs(name) == hist # <<>> /\ Last.op = name

\* every node but root has a parent that is in the map, is a Split and lists it
TreeInvariant(self) ==
    \A id \in (DOMAIN self.nodes) \ {self.root} :
        LET parent == self.nodes[id].parent
        IN  /\ is_some(parent)
            /\ unwrap(parent) \in DOMAIN self.nodes
            /\ self.nodes[unwrap(parent)].kind = "Split"
            /\ id \in {self.nodes[unwrap(parent)].children[1],
                       self.nodes[unwrap(parent)].children[2]}

\* the traversal from root meets every node of the map exactly once
VisitsEachNodeOnce(self) ==
    LET v == visit(self, ZeroRect, FALSE, ReadOnlyVisitor)
    IN  /\ ~v.panicked
        /\ Len(v.calls) = Cardinality(DOMAIN self.nodes)
        /\ {v.calls[i].id : i \in 1 .. Len(v.calls)} = DOMAIN self.nodes

\* C1: after any sequence of input-handler events, focused is the ID of a
\* node that is in the node map and is a Leaf.
C1_FocusedIsLeaf == IsLeaf(db, db.focused)

\* C2: after any sequence of split and merge, every node but root has a
\* parent that is a Split listing it, and the traversal from root visits
\* every node of the map exactly once.
C2_Connected == TreeInvariant(db) /\ VisitsEachNodeOnce(db)

C2_Witness ==
    /\ LastIs("merge")
    /\ Last.before.nodes # db.nodes
    /\ Cardinality(DOMAIN db.nodes) >= 3

\* C3: after any sequence of split, merge and focus(id), id a Leaf reachable
\* from root, every node but root has a parent that is in the map, is a
\* Split and lists it; merge leaves no orphans.
C3_NoOrphans == TreeInvariant(db)

\* C4: split(d) immediately followed by merge(), from a state with a Leaf
\* focused, gives back the tree it started from: same node map (the focused
\* node a Leaf with its parent and info, the two children gone), same focused.
SplitThenMerge ==
    /\ Len(hist) = 2
    /\ hist[1].op = "split"
    /\ hist[2].op = "merge"
    /\ IsLeaf(hist[1].before, hist[1].before.focused)

C4_SplitMergeInverse ==
    SplitThenMerge =>
        LET before == hist[1].before
            between == hist[2].before
            id == before.focused
        IN  /\ ~panicked
            /\ IsLeaf(db, id)
            /\ db.nodes[id].parent = before.nodes[id].parent
            /\ db.nodes[id].info = before.nodes[id].info
            /\ (DOMAIN between.nodes) \ (DOMAIN before.nodes) # {}
            /\ ((DOMAIN between.nodes) \ (DOMAIN before.nodes)) \cap DOMAIN db.nodes = {}
            /\ db.nodes = before.nodes
            /\ db.focused = id
            /\ db.root = before.root

C4_Witness ==
    /\ SplitThenMerge
    /\ is_some(hist[1].before.nodes[hist[1].before.focused].parent)
    /\ hist[1].before.nodes[hist[1].before.focused].info.clear_color # DefaultColor
    /\ hist[1].arg = "Vertical"

\* C5: the Leaf rectangles a visit of R delivers partition R: every pixel of
\* R is in exactly one of them and none of them has a pixel outside R.
ToInt(a) == a[1] * Limb + a[2]
PixelsOf(rect) ==
    {Vec2(wide_add(rect.x, u32(i)), wide_add(rect.y, u32(j))) :
        i \in 0 .. ToInt(rect.w) - 1, j \in 0 .. ToInt(rect.h) - 1}
LeafCalls(calls) == {i \in 1 .. Len(calls) : calls[i].accept = "leaf"}
Partition(rect, calls) ==
    /\ \A p \in PixelsOf(rect) :
          Cardinality({i \in LeafCalls(calls) : contains_point(calls[i].rect, p)}) = 1
    /\ \A i \in LeafCalls(calls) : PixelsOf(calls[i].rect) \subseteq PixelsOf(rect)

C5_LeavesPartitionAnyRect == LastIs("visit") => Partition(Last.arg, Last.out)

\* C5 as amended: the same for every R whose pixels all have u32 coordinates
\* (x + w <= 2^32 and y + h <= 2^32); the visit then does not panic.
TwoTo32 == <<Limb, 0>>
PixelsAreU32(rect) ==
    /\ wide_le(wide_add(rect.x, rect.w), TwoTo32)
    /\ wide_le(wide_add(rect.y, rect.h), TwoTo32)

C5_LeavesPartitionU32Rect ==
    (LastIs("visit") /\ PixelsAreU32(Last.arg)) =>
        ~panicked /\ Partition(Last.arg, Last.out)

C5_Witness ==
    /\ LastIs("visit")
    /\ PixelsAreU32(Last.arg)
    /\ Last.arg.x = u32_MAX /\ Last.arg.w = u32(1) /\ Last.arg.h = u32(2)
    /\ Cardinality(LeafCalls(Last.out)) >= 3
    /\ \E i, j \in 1 .. Len(Last.out) :
          /\ Last.out[i].accept = "split" /\ Last.out[i].split_direction = "Horizontal"
          /\ Last.out[j].accept = "split" /\ Last.out[j].split_direction = "Vertical"

\* C6: for any tree and any pointer position inside the root rectangle, the
\* ViewportPicker run through visit does not panic and ends with found = the
\* ID of a Leaf whose rectangle contains the position.
PickedLeafContains(self, found, pos) ==
    LET v == visit(self, canvas_rect, FALSE, ReadOnlyVisitor)
    IN  /\ is_some(found)
        /\ IsLeaf(self, unwrap(found))
        /\ \E i \in 1 .. Len(v.calls) :
              /\ v.calls[i].id = unwrap(found)
              /\ contains_point(v.calls[i].rect, pos)

C6_PickerFindsLeaf ==
    (LastIs("on_mouse_motion") /\ contains_point(canvas_rect, Last.out.pos)) =>
        ~panicked /\ PickedLeafContains(Last.before, Last.out.found, Last.out.pos)

\* C8: from a fresh ViewportDB, split_v() makes root a Vertical Split with
\* children (1,2) and focused = 1; split_h() then makes node 1 a Horizontal
\* Split with children (3,4) and focused = 3; merge() then makes node 1 a Leaf
\* again, removes 3 and 4 and focuses 1; a second merge() makes root a Leaf
\* again, removes 1 and 2 and focuses 0.
IsSplitOf(self, id, direction, c0, c1) ==
    /\ id \in DOMAIN self.nodes
    /\ self.nodes[id].kind = "Split"
    /\ self.nodes[id].split.direction = direction
    /\ self.nodes[id].children = <<c0, c1>>

AfterSplitV(self) ==
    /\ DOMAIN self.nodes = {0, 1, 2}
    /\ IsSplitOf(self, 0, "Vertical", 1, 2)
    /\ IsLeaf(self, 1) /\ IsLeaf(self, 2)
    /\ self.focused = 1

AfterSplitH(self) ==
    /\ DOMAIN self.nodes = {0, 1, 2, 3, 4}
    /\ IsSplitOf(self, 0, "Vertical", 1, 2)
    /\ IsSplitOf(self, 1, "Horizontal", 3, 4)
    /\ IsLeaf(self, 2) /\ IsLeaf(self, 3) /\ IsLeaf(self, 4)
    /\ self.focused = 3

\* the states of the scenario itself, where four IDs have been allocated
ScenarioAfterSplitH(self) == AfterSplitH(self) /\ self.highest_id = 4
ScenarioAfterFirstMerge(self) == AfterSplitV(self) /\ self.highest_id = 4

AfterSecondMerge(self) ==
    /\ DOMAIN self.nodes = {0}
    /\ IsLeaf(self, 0)
    /\ self.focused = 0
    /\ self.root = 0

C8_Scenario ==
    /\ (LastIs("split") /\ Last.arg = "Vertical" /\ Last.before = ViewportDB_new)
          => ~panicked /\ AfterSplitV(db)
    /\ (Len(hist) = 2 /\ hist[1].op = "split" /\ hist[1].arg = "Vertical"
            /\ hist[1].before = ViewportDB_new
            /\ hist[2].op = "split" /\ hist[2].arg = "Horizontal")
          => ~panicked /\ AfterSplitH(db)
    /\ (LastIs("merge") /\ ScenarioAfterSplitH(Last.before))
          => ~panicked /\ AfterSplitV(db)
    /\ (LastIs("merge") /\ ScenarioAfterFirstMerge(Last.before))
          => ~panicked /\ AfterSecondMerge(db)

C8_Witness ==
    /\ Len(hist) = 2
    /\ hist[1].op = "merge" /\ ScenarioAfterSplitH(hist[1].before)
    /\ hist[2].op = "merge" /\ ScenarioAfterFirstMerge(hist[2].before)
    /\ AfterSecondMerge(db)

\* C10: each split allocates two IDs, distinct from each other and greater
\* than every ID allocated before; no ID is given to a second node, the IDs
\* of nodes merge has deleted included.
NewIds == (DOMAIN db.nodes) \ (DOMAIN Last.before.nodes)

C10_FreshIds ==
    (LastIs("split") /\ ~panicked) =>
        /\ Cardinality(NewIds) = 2
        /\ db.nodes[Last.before.focused].children[1]
              # db.nodes[Last.before.focused].children[2]
        /\ NewIds = {db.nodes[Last.before.focused].children[1],
                     db.nodes[Last.before.focused].children[2]}
        /\ \A new \in NewIds : \A old \in Last.allocated : new > old

C10_Witness ==
    /\ LastIs("split") /\ ~panicked
    /\ Last.allocated \ DOMAIN Last.before.nodes # {}

\* C11: ViewportDB::new() yields exactly one node, a Leaf with ID 0 that is
\* root and focused, with hovered = None; after any sequence of split, merge,
\* focus and hover the root ID is unchanged, the root node is in the map with
\* parent = None, and no other node of the map has parent = None.
C11_SingleRoot ==
    /\ hist = <<>> =>
          /\ DOMAIN db.nodes = {0}
          /\ IsLeaf(db, 0)
          /\ db.root = 0 /\ db.focused = 0 /\ db.hovered = None
    /\ db.root = 0
    /\ db.root \in DOMAIN db.nodes
    /\ db.nodes[db.root].parent = None
    /\ \A id \in (DOMAIN db.nodes) \ {db.root} : db.nodes[id].parent # None

\* a merge that left orphans behind, after focus(id) and hover(id) were used
C11_Witness ==
    /\ LastIs("merge")
    /\ Last.before.nodes # db.nodes
    /\ ~TreeInvariant(db)
    /\ db.nodes[db.root].kind = "Split"
    /\ is_some(db.hovered)

\* C12: split(direction) with a Leaf L focused turns L into a Split of that
\* direction that keeps L's parent, inserts two new Leaf nodes whose parent is
\* L, gives the first child exactly L's former info and the second child L's
\* info except for its clear colour, sets focused to the first child, and
\* changes no other node.
SplitOfLeaf == LastIs("split") /\ IsLeaf(Last.before, Last.before.focused)

C12_SplitEffect ==
    SplitOfLeaf =>
        LET before == Last.before
            L == before.focused
            c0 == db.nodes[L].children[1]
            c1 == db.nodes[L].children[2]
        IN  /\ ~panicked
            /\ L \in DOMAIN db.nodes
            /\ db.nodes[L].kind = "Split"
            /\ db.nodes[L].split.direction = Last.arg
            /\ db.nodes[L].parent = before.nodes[L].parent
            /\ c0 # c1
            /\ DOMAIN db.nodes = (DOMAIN before.nodes) \cup {c0, c1}
            /\ {c0, c1} \cap DOMAIN before.nodes = {}
            /\ IsLeaf(db, c0) /\ db.nodes[c0].parent = Some(L)
            /\ IsLeaf(db, c1) /\ db.nodes[c1].parent = Some(L)
            /\ db.nodes[c0].info = before.nodes[L].info
            /\ DOMAIN db.nodes[c1].info = DOMAIN before.nodes[L].info
            /\ \A field \in (DOMAIN before.nodes[L].info) \ {"clear_color"} :
                  db.nodes[c1].info[field] = before.nodes[L].info[field]
            /\ db.focused = c0
            /\ \A id \in (DOMAIN before.nodes) \ {L} : db.nodes[id] = before.nodes[id]

\* a Horizontal split of a Leaf that is not the root, whose second child gets
\* another colour than the Leaf had
C12_Witness ==
    /\ SplitOfLeaf
    /\ ~panicked
    /\ Last.arg = "Horizontal"
    /\ is_some(Last.before.nodes[Last.before.focused].parent)
    /\ db.nodes[db.nodes[Last.before.focused].children[2]].info
          # Last.before.nodes[Last.before.focused].info

\* C13: merge() with a focused Leaf F that has parent P turns P into a Leaf
\* that carries F's info (whether F is P's first or second child) and keeps
\* P's own parent, removes exactly P's two recorded children from the node
\* map, and sets focused to P.
MergeOfChild ==
    /\ LastIs("merge")
    /\ IsLeaf(Last.before, Last.before.focused)
    /\ is_some(Last.before.nodes[Last.before.focused].parent)

C13_MergeEffect ==
    MergeOfChild =>
        LET before == Last.before
            F == before.focused
            P == unwrap(before.nodes[F].parent)
            c0 == before.nodes[P].children[1]
            c1 == before.nodes[P].children[2]
        IN  /\ ~panicked
            /\ F \in {c0, c1}
            /\ IsLeaf(db, P)
            /\ db.nodes[P].info = before.nodes[F].info
            /\ db.nodes[P].parent = before.nodes[P].parent
            /\ DOMAIN db.nodes = (DOMAIN before.nodes) \ {c0, c1}
            /\ \A id \in (DOMAIN db.nodes) \ {P} : db.nodes[id] = before.nodes[id]
            /\ db.focused = P

\* F is the second child of a P that is not the root, F's sibling is a Split,
\* and F's colour is not the default one
C13_Witness ==
    /\ MergeOfChild
    /\ ~panicked
    /\ LET before == Last.before
           F == before.focused
           P == unwrap(before.nodes[F].parent)
       IN  /\ before.nodes[P].children[2] = F
           /\ before.nodes[before.nodes[P].children[1]].kind = "Split"
           /\ is_some(before.nodes[P].parent)
           /\ before.nodes[F].info.clear_color # DefaultColor

\* C14: merge() called while the focused Leaf has no parent (it is the root)
\* changes nothing: the node map, root, focused, hovered and the ID counter
\* are all unchanged.
MergeOfRoot ==
    /\ LastIs("merge")
    /\ IsLeaf(Last.before, Last.before.focused)
    /\ Last.before.nodes[Last.before.focused].parent = None

C14_MergeOfRootNoOp ==
    MergeOfRoot =>
        /\ ~panicked
        /\ db.nodes = Last.before.nodes
        /\ db.root = Last.before.root
        /\ db.focused = Last.before.focused
        /\ db.hovered = Last.before.hovered
        /\ db.highest_id = Last.before.highest_id
        /\ db = Last.before
        /\ allocated = Last.allocated

\* the root is a Leaf again after splits and merges, with IDs used up, other
\* nodes still in the map and a node hovered
C14_Witness ==
    /\ MergeOfRoot
    /\ ~panicked
    /\ Last.before.focused = Last.before.root
    /\ Last.before.highest_id >= 4
    /\ Cardinality(DOMAIN Last.before.nodes) > 1
    /\ is_some(Last.before.hovered)

\* C15: split(direction) called while focused designates a Split node (which
\* only focus(id) can bring about) traps, and at the moment of the trap no
\* node has been modified, no ID allocated and focused is unchanged.
SplitOfSplit ==
    /\ LastIs("split")
    /\ Last.before.focused \in DOMAIN Last.before.nodes
    /\ Last.before.nodes[Last.before.focused].kind = "Split"

C15_SplitOfSplitTraps ==
    SplitOfSplit =>
        /\ panicked
        /\ db.nodes = Last.before.nodes
        /\ db.highest_id = Last.before.highest_id
        /\ allocated = Last.allocated
        /\ db.focused = Last.before.focused
        /\ db = Last.before

\* the focused Split is not the root, and IDs were allocated before
C15_Witness ==
    /\ SplitOfSplit
    /\ panicked
    /\ is_some(Last.before.nodes[Last.before.focused].parent)
    /\ Last.before.highest_id >= 4

\* C16: visit(rect, visitor) invokes the visitor exactly once per node
\* reachable from root (accept_split_viewport for Splits, accept_leaf_viewport
\* for Leaves) in pre-order: a Split is delivered before any node of its
\* subtrees, and the whole subtree of its first child before any node of its
\* second child's subtree.
CallOf(calls, id) == CHOOSE i \in 1 .. Len(calls) : calls[i].id = id

PreOrder(self, calls) ==
    /\ Len(calls) = Cardinality(Reachable(self, self.root))
    /\ {calls[i].id : i \in 1 .. Len(calls)} = Reachable(self, self.root)
    /\ \A i \in 1 .. Len(calls) :
          /\ calls[i].accept = IF IsLeaf(self, calls[i].id) THEN "leaf" ELSE "split"
          /\ ~IsLeaf(self, calls[i].id) =>
                \A a \in Reachable(self, self.nodes[calls[i].id].children[1]),
                   b \in Reachable(self, self.nodes[calls[i].id].children[2]) :
                      /\ i < CallOf(calls, a)
                      /\ CallOf(calls, a) < CallOf(calls, b)

C16_PreOrderAnyRect == LastIs("visit") => ~panicked /\ PreOrder(Last.before, Last.out)

\* C16 as amended: the same for every rect whose pixels all have u32
\* coordinates (x + w <= 2^32 and y + h <= 2^32).
C16_PreOrderU32Rect ==
    (LastIs("visit") /\ PixelsAreU32(Last.arg)) =>
        ~panicked /\ PreOrder(Last.before, Last.out)

\* three Splits, one below the other: seven calls
C16_Witness ==
    /\ LastIs("visit")
    /\ PixelsAreU32(Last.arg)
    /\ ~panicked
    /\ Len(Last.out) = 7
    /\ db.nodes[db.root].kind = "Split"
    /\ db.nodes[db.nodes[db.root].children[1]].kind = "Split"
    /\ db.nodes[db.nodes[db.nodes[db.root].children[1]].children[1]].kind = "Split"

\* C17: during visit, the border_px delivered to the visitor is 0 for the
\* root node (whether the root is a Leaf or a Split) and the configured
\* ViewportDB.border_px for every other node.
C17_RootBorderIsZero ==
    LastIs("visit") =>
        \A i \in 1 .. Len(Last.out) :
            Last.out[i].border_px =
                IF Last.out[i].id = Last.before.root THEN 0 ELSE Last.before.border_px

\* C25: after any sequence of input-handler events (mouse motion, mouse
\* leave, click, key V/H/M), hovered is either None or the ID of a node that
\* is in the node map and is a Leaf.
C25_HoveredIsLeaf == db.hovered = None \/ IsLeaf(db, unwrap(db.hovered))

\* C26: for a Split visited with rectangle (x, y, w, h), the children
\* receive: for Horizontal, first child (x, y, w, floor(h/2)) and second child
\* (x, y+floor(h/2), w, h-floor(h/2)); for Vertical, first child
\* (x, y, floor(w/2), h) and second child (x+floor(w/2), y, w-floor(w/2), h);
\* whatever origin, unit and value the Split stores and whatever the visitor
\* writes through distance_from_left_or_bottom_px.
\* q = floor(n/2): 2q = n or 2q + 1 = n
IsFloorHalf(q, n) ==
    wide_add(q, q) = n \/ wide_add(wide_add(q, q), u32(1)) = n

ChildRects(self, calls) ==
    \A i \in 1 .. Len(calls) :
        calls[i].accept = "split" =>
            LET R == calls[i].rect
                r0 == calls[CallOf(calls, self.nodes[calls[i].id].children[1])].rect
                r1 == calls[CallOf(calls, self.nodes[calls[i].id].children[2])].rect
            IN  IF calls[i].split_direction = "Horizontal"
                THEN /\ r0.x = R.x /\ r0.y = R.y /\ r0.w = R.w
                     /\ IsFloorHalf(r0.h, R.h)
                     /\ r1.x = R.x /\ r1.w = R.w
                     /\ r1.y = wide_add(R.y, r0.h)
                     /\ wide_add(r0.h, r1.h) = R.h
                ELSE /\ r0.x = R.x /\ r0.y = R.y /\ r0.h = R.h
                     /\ IsFloorHalf(r0.w, R.w)
                     /\ r1.y = R.y /\ r1.h = R.h
                     /\ r1.x = wide_add(R.x, r0.w)
                     /\ wide_add(r0.w, r1.w) = R.w

C26_ChildRectsAnyRect ==
    LastIs("visit") => ~panicked /\ ChildRects(Last.before, Last.out)

\* C26 as amended: the same for every rectangle whose pixels all have u32
\* coordinates (x + w <= 2^32 and y + h <= 2^32).
C26_ChildRectsU32Rect ==
    (LastIs("visit") /\ PixelsAreU32(Last.arg.rect)) =>
        ~panicked /\ ChildRects(Last.before, Last.out)

\* a rectangle of odd extent goes through a Horizontal and a Vertical Split,
\* one of which stores (RightOrTop, Px, 1.)
C26_Witness ==
    /\ LastIs("visit")
    /\ PixelsAreU32(Last.arg.rect)
    /\ ~panicked
    /\ Last.arg.rect.w = u32(1)
    /\ is_some(Last.arg.visitor.distance)
    /\ \E i, j \in 1 .. Len(Last.out) :
          /\ Last.out[i].accept = "split" /\ Last.out[i].split_direction = "Horizontal"
          /\ Last.out[j].accept = "split" /\ Last.out[j].split_direction = "Vertical"
          /\ db.nodes[Last.out[i].id].split.unit = "Px"
          /\ db.nodes[Last.out[j].id].split.unit = "Ratio"

\* C27: visit(rect, visitor) with a visitor that does not modify leaf info
\* leaves the ViewportDB unchanged: the set of nodes, each node's kind, parent,
\* children and Split spec, and root, focused, hovered and the ID counter are
\* the same after the call as before.
KeepsLeafInfo(visitor) == visitor.info = None

SameTree(a, b) ==
    /\ DOMAIN a.nodes = DOMAIN b.nodes
    /\ \A id \in DOMAIN a.nodes :
          /\ a.nodes[id].kind = b.nodes[id].kind
          /\ a.nodes[id].parent = b.nodes[id].parent
          /\ a.nodes[id].kind = "Split" =>
                /\ a.nodes[id].children = b.nodes[id].children
                /\ a.nodes[id].split = b.nodes[id].split
    /\ a.root = b.root
    /\ a.focused = b.focused
    /\ a.hovered = b.hovered
    /\ a.highest_id = b.highest_id

C27_VisitLeavesDBUnchanged ==
    (LastIs("visit") /\ KeepsLeafInfo(Last.arg.visitor)) =>
        SameTree(db, Last.before) /\ db = Last.before

\* a visitor that overwrites every distance has walked a tree of two Splits
\* with a Leaf of a random colour
C27_Witness ==
    /\ LastIs("visit")
    /\ ~panicked
    /\ KeepsLeafInfo(Last.arg.visitor)
    /\ is_some(Last.arg.visitor.distance)
    /\ Last.arg.rect # ZeroRect
    /\ Cardinality({i \in 1 .. Len(Last.out) : Last.out[i].accept = "split"}) >= 2
    /\ \E id \in DOMAIN db.nodes :
          IsLeaf(db, id) /\ db.nodes[id].info # ViewportInfo(DefaultColor)

\* the contrast: a visitor that does write leaf info changes the node map
C27_InfoWriterChangesDB ==
    /\ LastIs("visit")
    /\ ~KeepsLeafInfo(Last.arg.visitor)
    /\ db # Last.before
    /\ SameTree(db, Last.before)

(***************************************************************************)
(* Properties of the pumps.                                                *)
(***************************************************************************)
NbRequests == NbCubemapFaceRequests + NbTexture2DRequests

\* each request scheduled at startup has exactly one write, to its own
\* destination and with the image of its own future
WrittenOnce(pump, req) ==
    Cardinality({k \in 1 .. Len(gpu[pump]) :
                    gpu[pump][k].img = unwrap(req.future)}) = 1
    /\ \E k \in 1 .. Len(gpu[pump]) :
          /\ gpu[pump][k].img = unwrap(req.future)
          /\ gpu[pump][k].array_id = req.array_id
          /\ IF pump = "cubemap_faces"
             THEN /\ gpu[pump][k].cubemap_index = req.cubemap_index
                  /\ gpu[pump][k].face = req.face
             ELSE gpu[pump][k].slot = req.slot

AllIntegrated ==
    /\ cubemap_face_requests = <<>>
    /\ texture2d_requests = <<>>
    /\ Len(gpu.cubemap_faces) + Len(gpu.texture2ds) = NbRequests
    /\ \A i \in 1 .. NbCubemapFaceRequests :
          WrittenOnce("cubemap_faces", Gameplay_new_cubemap_face_requests[i])
    /\ \A i \in 1 .. NbTexture2DRequests :
          WrittenOnce("texture2ds", Gameplay_new_texture2d_requests[i])

TwoTexturesPending(q) ==
    /\ Len(q) = 2
    /\ q[1].slot = 0 /\ q[2].slot = 1
    /\ q[1].array_id = q[2].array_id

InTexturePumpOfTwo ==
    /\ pump_start.pump = "texture2ds"
    /\ TwoTexturesPending(pump_start.requests)

BackFromTexturePumpOfTwoComplete ==
    /\ InTexturePumpOfTwo
    /\ pc = At("returned", "texture2ds", 0)
    /\ \A i \in 1 .. 2 :
          /\ unwrap(pump_start.requests[i].future) \in pump_start.complete
          /\ futures[unwrap(pump_start.requests[i].future)] = "Ok"

C9_TwoTextures ==
    /\ (InTexturePumpOfTwo
          /\ \A i \in 1 .. 2 : ~is_complete(unwrap(pump_start.requests[i].future)))
       => /\ texture2d_requests = pump_start.requests
          /\ gpu.texture2ds = pump_start.gpu
    /\ BackFromTexturePumpOfTwoComplete
       => /\ texture2d_requests = <<>>
          /\ gpu.texture2ds = pump_start.gpu \o
                <<[array_id |-> pump_start.requests[1].array_id, slot |-> 0,
                   img |-> unwrap(pump_start.requests[1].future)],
                  [array_id |-> pump_start.requests[2].array_id, slot |-> 1,
                   img |-> unwrap(pump_start.requests[2].future)]>>

C9_Witness == BackFromTexturePumpOfTwoComplete /\ texture2d_requests = <<>>

\* C18: the pump never blocks on an unfinished task: in pump_cubemap_faces and
\* pump_texture2ds, wait() is called on a request's future only after
\* is_complete() has returned true for that same future in the current scan,
\* under every interleaving of worker completions with the scan.
\* the render thread has seen is_complete() = true and has not unwound
AboutToWait == ~panicked /\ pc.at = "integrate"

C18_WaitNeverBlocks ==
    AboutToWait =>
        /\ pc.i \in 1 .. Len(requests(pc.pump))
        /\ is_complete(unwrap(requests(pc.pump)[pc.i].future))

\* the second texture is about to be waited for while the first is still being
\* loaded, and it was not complete yet when the pump was called
C18_Witness ==
    /\ AboutToWait
    /\ pc.pump = "texture2ds"
    /\ pc.i = 2
    /\ ~is_complete(unwrap(texture2d_requests[1].future))
    /\ unwrap(texture2d_requests[2].future) \notin pump_start.complete

\* C19: across all frames, each request's result is taken at most once and
\* each request causes at most one sub-image write: once a request has been
\* integrated it is no longer in the pending queue and is never scanned,
\* waited on or uploaded again.
Pumps == {"cubemap_faces", "texture2ds"}
QueuedAt(pump, f) == {i \in 1 .. Len(requests(pump)) : requests(pump)[i].future = Some(f)}
IsQueued(f) == \E pump \in Pumps : QueuedAt(pump, f) # {}
WritesOf(pump, f) == {k \in 1 .. Len(gpu[pump]) : gpu[pump][k].img = f}
NbWritesOf(f) ==
    Cardinality(WritesOf("cubemap_faces", f)) + Cardinality(WritesOf("texture2ds", f))

\* a request is in at most one place of one queue, has at most one write, and
\* none while it is queued
AtMostOnce ==
    \A f \in Futures :
        /\ Cardinality(QueuedAt("cubemap_faces", f))
              + Cardinality(QueuedAt("texture2ds", f)) <= 1
        /\ NbWritesOf(f) <= 1
        /\ IsQueued(f) => NbWritesOf(f) = 0

\* a request that has left the queues does not come back and gets no write
NeverAgain ==
    \A f \in Futures :
        ~IsQueued(f) => (~IsQueued(f))' /\ NbWritesOf(f)' = NbWritesOf(f)

\* a request leaves the queue in the step that takes its result
TakenWhenRemoved ==
    \A f \in Futures :
        (IsQueued(f) /\ (~IsQueued(f))') =>
            /\ pc.at = "integrate"
            /\ requests(pc.pump)[pc.i].future = Some(f)
            /\ NbWritesOf(f)' <= 1

C19_IntegratedOnce == []AtMostOnce /\ [][NeverAgain /\ TakenWhenRemoved]_vars

\* a later pump scans the queue from which the first texture has gone
C19_Witness ==
    /\ pc = At("scan", "texture2ds", 2)
    /\ Len(texture2d_requests) = 1
    /\ Len(gpu.texture2ds) = 1
    /\ pump_start.gpu = gpu.texture2ds
    /\ cubemap_face_requests = <<>>

\* C20: a request whose task completes with an I/O error or a decode error
\* does not stop the frame loop: the failed request is dropped and the other
\* pending requests go on being polled and integrated in that frame and the
\* later ones.
Failed(f) == futures[f] \in {"IoError", "DecodeError"}

C20_FailureIsDropped ==
    (\E f \in Futures : Failed(f) /\ ~IsQueued(f)) => ~panicked

\* C21: every request whose future is already complete when a pump call
\* begins has been integrated (uploaded and removed from the pending queue)
\* by the time that pump call returns, under any interleaving of further
\* worker completions during the scan; hence no request that was complete
\* before the frame's pumps is still pending when the frame's render pass runs.
Integrated(f) == ~IsQueued(f) /\ NbWritesOf(f) = 1
PumpReturned == ~panicked /\ pc.at = "returned"
FramePumped == ~panicked /\ pc = At("returned", "texture2ds", 0)

C21_CompleteAtStartIntegrated ==
    /\ PumpReturned => \A f \in pump_start.complete : Integrated(f)
    /\ FramePumped => \A f \in pump_start.frame : Integrated(f)

\* the texture pump returns: it has integrated a texture that was complete
\* when the frame began and leaves one that completed after the scan had
\* passed it
C21_Witness ==
    /\ FramePumped
    /\ \E f \in pump_start.frame \cap pump_start.complete : Integrated(f)
    /\ \E g \in Futures : is_complete(g) /\ IsQueued(g)

\* C22: the pump writes a decoded image into a texture array only if the
\* image's extent and pixel format match the destination array's declared
\* info; on a mismatch it traps instead of issuing the sub-image write.
WrittenImagesMatch ==
    \A pump \in Pumps : \A k \in 1 .. Len(gpu[pump]) :
        LET metadata == Metadata(gpu[pump][k].array_id, futures[gpu[pump][k].img])
            info == TextureArrayInfo(gpu[pump][k].array_id)
        IN  /\ futures[gpu[pump][k].img] \in DecodedOutcomes
            /\ metadata.size = info.size
            /\ metadata.pixel_format = info.internal_format

MismatchTraps ==
    \A f \in Futures :
        (futures[f] \in MismatchOutcomes /\ ~IsQueued(f)) =>
            panicked /\ NbWritesOf(f) = 0

InPump == ~panicked /\ pc.at \in {"scan", "integrate"}
Without(q, i) == SubSeq(q, 1, i - 1) \o SubSeq(q, i + 1, Len(q))

\* the futures were numbered as the requests were inserted
InInsertionOrder(q) ==
    \A i, j \in 1 .. Len(q) : i < j => unwrap(q[i].future) < unwrap(q[j].future)

\* C23 as stated, "complete at the time of that scan" taken at the time the
\* request is chosen: no request before the chosen one is complete
C23_EarliestCompleteWhenChosen ==
    /\ InInsertionOrder(cubemap_face_requests)
    /\ InInsertionOrder(texture2d_requests)
    /\ AboutToWait =>
          \A j \in 1 .. (pc.i - 1) :
              ~is_complete(unwrap(requests(pc.pump)[j].future))

\* a pump begins its scan at the front
ScanFromFront ==
    (pc.at \notin {"scan", "integrate"} /\ pc'.at = "scan") => pc'.i = 1
\* the scan passes a request only when is_complete() is false for it, and goes
\* to the next one in the queue
ScanPassesIncomplete ==
    (pc.at = "scan" /\ pc'.at = "scan" /\ pc' # pc) =>
        /\ pc'.pump = pc.pump
        /\ pc'.i = pc.i + 1
        /\ pc.i \in 1 .. Len(requests(pc.pump))
        /\ ~is_complete(unwrap(requests(pc.pump)[pc.i].future))
\* the request chosen is the one the scan stands at, is_complete() being true
ScanChoosesComplete ==
    (pc.at = "scan" /\ pc'.at = "integrate") =>
        /\ pc' = At("integrate", pc.pump, pc.i)
        /\ is_complete(unwrap(requests(pc.pump)[pc.i].future))
\* the chosen request is removed, the others keep their order, and the scan
\* restarts from the front
RemovalKeepsOrder ==
    (~panicked /\ pc.at = "integrate" /\ <<pc, panicked>>' # <<pc, panicked>>) =>
        /\ requests(pc.pump)' = Without(requests(pc.pump), pc.i)
        /\ ~panicked' => pc' = At("scan", pc.pump, 1)
\* nothing but an integration changes a queue
OnlyIntegrationRemoves ==
    <<cubemap_face_requests, texture2d_requests>>'
            # <<cubemap_face_requests, texture2d_requests>>
        => ~panicked /\ pc.at = "integrate"

\* C23 as amended: "complete" is what is_complete() answered when the scan
\* stood at the request.
C23_ScanOrder ==
    /\ [](InInsertionOrder(cubemap_face_requests) /\ InInsertionOrder(texture2d_requests))
    /\ [][/\ ScanFromFront /\ ScanPassesIncomplete /\ ScanChoosesComplete
          /\ RemovalKeepsOrder /\ OnlyIntegrationRemoves]_vars

\* the second texture is chosen; the first was passed as not complete and has
\* completed since
C23_Witness ==
    /\ AboutToWait
    /\ pc.pump = "texture2ds"
    /\ pc.i = 2
    /\ is_complete(unwrap(texture2d_requests[1].future))

\* C24: a request whose task never completes (stalled) does not prevent any
\* other request, inserted before or after it, from being integrated: every
\* other request that becomes complete-success is integrated no later than
\* the first pump call that starts after its completion.
StalledAt(q, i) == ~is_complete(unwrap(q[i].future))

C24_StalledBlocksNobody ==
    /\ ~panicked
    /\ PumpReturned =>
          \A i \in 1 .. Len(pump_start.requests) :
              LET f == unwrap(pump_start.requests[i].future)
              IN  (f \in pump_start.complete /\ futures[f] = "Ok") =>
                      /\ ~IsQueued(f)
                      /\ \E k \in 1 .. Len(gpu[pc.pump]) : gpu[pc.pump][k].img = f
    /\ FramePumped =>
          \A f \in pump_start.frame : futures[f] = "Ok" => Integrated(f)

\* the texture pump returns with the first texture still not loaded, the
\* second, complete when the pump was called, integrated in this call; the
\* cubemap face, first of all requests, is still not loaded either
C24_Witness ==
    /\ PumpReturned
    /\ pc.pump = "texture2ds"
    /\ Len(pump_start.requests) = 2
    /\ StalledAt(pump_start.requests, 1)
    /\ unwrap(pump_start.requests[2].future) \in pump_start.complete
    /\ Len(gpu.texture2ds) = Len(pump_start.gpu) + 1
    /\ Len(cubemap_face_requests) = 1
    /\ StalledAt(cubemap_face_requests, 1)

\* C28: every call of pump_cubemap_faces / pump_texture2ds terminates: each
\* iteration of the outer loop either breaks (no complete request found) or
\* removes one request from a finite queue to which nothing is added during
\* the pump, so a pump over a queue of length n performs at most n
\* integrations and n+1 scans.
\* the integrations the running pump has made; the scan it is in is the one
\* after the last of them
NbIntegrations == Len(pump_start.requests) - Len(requests(pc.pump))
NbScans == NbIntegrations + 1

\* the steps the pump can still take: the rest of this scan, then a removal
\* and a full scan for every request left
StepsOfScan(len) == len + 2
StepsLeft ==
    IF panicked \/ pc.at \notin {"scan", "integrate"} THEN 0
    ELSE LET len == Len(requests(pc.pump))
         IN  IF pc.at = "scan"
             THEN (len + 2 - pc.i) + len * StepsOfScan(len)
             ELSE 1 + (len - 1) * StepsOfScan(len) + StepsOfScan(len - 1)

\* in a pump, a step of the render thread uses up one of the steps left, a
\* step of a worker thread adds none, and no step lengthens the queue
PumpAdvances ==
    InPump =>
        /\ StepsLeft' <= StepsLeft
        /\ <<pc, panicked>>' # <<pc, panicked>> => StepsLeft' < StepsLeft
        /\ Len(requests(pc.pump))' <= Len(requests(pc.pump))
\* a scan begins when the pump is called or after an integration
ScanBegins ==
    (pc' # pc /\ pc'.at = "scan" /\ pc'.i = 1) =>
        \/ pc.at \in {"idle", "returned"}
        \/ /\ pc.at = "integrate"
           /\ Len(requests(pc.pump))' = Len(requests(pc.pump)) - 1
PumpBounds ==
    InPump =>
        /\ StepsLeft > 0
        /\ pc.i \in 1 .. Len(requests(pc.pump)) + 1
        /\ pc.at = "integrate" => pc.i <= Len(requests(pc.pump))
        /\ NbIntegrations \in 0 .. Len(pump_start.requests)
        /\ pc.at = "integrate" => NbIntegrations < Len(pump_start.requests)
        /\ NbScans <= Len(pump_start.requests) + 1

C28_PumpTerminates ==
    /\ [][PumpAdvances /\ ScanBegins]_vars
    /\ []PumpBounds
    /\ \A pump \in Pumps :
          (InPump /\ pc.pump = pump)
              ~> (panicked \/ pc = At("returned", pump, 0))

\* the texture pump returns after as many integrations as its queue was long
\* and one scan more
C28_Witness ==
    /\ PumpReturned
    /\ pc.pump = "texture2ds"
    /\ Len(pump_start.requests) = NbTexture2DRequests
    /\ NbIntegrations = NbTexture2DRequests

\* C29: requests are created and scheduled only in Gameplay::new: in every
\* later state the length of each pending queue never increases, every pending
\* request holds an unconsumed future (future is Some), and while no load
\* fails the number of pending requests plus the number of sub-image writes
\* issued by the pump equals the number of requests scheduled at startup.
NbPending == Len(cubemap_face_requests) + Len(texture2d_requests)
NbWrites == Len(gpu.cubemap_faces) + Len(gpu.texture2ds)
NbScheduled == NbCubemapFaceRequests + NbTexture2DRequests
NoLoadFailed == \A f \in Futures : ~Failed(f)

QueuesNeverGrow ==
    /\ Len(cubemap_face_requests') <= Len(cubemap_face_requests)
    /\ Len(texture2d_requests') <= Len(texture2d_requests)
PendingHoldFutures ==
    \A pump \in Pumps : \A i \in 1 .. Len(requests(pump)) :
        /\ is_some(requests(pump)[i].future)
        /\ unwrap(requests(pump)[i].future) \in Futures
        /\ NbWritesOf(unwrap(requests(pump)[i].future)) = 0
PendingPlusWritten == NoLoadFailed => NbPending + NbWrites = NbScheduled

C29_RequestsOnlyFromNew ==
    /\ [][QueuesNeverGrow]_vars
    /\ [](PendingHoldFutures /\ PendingPlusWritten)

\* between two frames: one texture is written, the other still pending with
\* its task not complete
C29_Witness ==
    /\ ~panicked
    /\ pc = Idle
    /\ NoLoadFailed
    /\ Len(gpu.texture2ds) = 1
    /\ Len(texture2d_requests) = 1
    /\ ~is_complete(unwrap(texture2d_requests[1].future))

\* C30: ViewportInputHandler maps events to tree operations as follows and no
\* others: key-down V calls split_v (Vertical), key-down H calls split_h
\* (Horizontal), key-down M calls merge, left-button-down sets focused to
\* hovered when hovered is Some, mouse-leave sets hovered to None; key-up
\* events, other keys, other buttons, and a left click with hovered = None
\* leave the node map and focused unchanged.
\* the state is what `r` returns, called on the state before the event
Does(r) == db = r.db /\ panicked = r.panicked
\* the node focused before the event is now a Split of this direction, its
\* first child focused
SplitAs(direction) ==
    ~panicked =>
        /\ IsSplit(db, Last.before.focused)
        /\ db.nodes[Last.before.focused].split.direction = direction
        /\ db.focused = db.nodes[Last.before.focused].children[1]
KeepsTreeAndFocus ==
    ~panicked /\ db.nodes = Last.before.nodes /\ db.focused = Last.before.focused

KeyIs(sym, state) == LastIs("on_key") /\ Last.arg = <<Some(sym), state>>
ButtonIs(btn, state) == LastIs("on_mouse_button") /\ Last.arg = <<btn, state>>

C30_EventsToOperations ==
    /\ KeyIs("V", "Down") =>
          /\ \E rnd \in Colors : Does(split(Last.before, "Vertical", rnd))
          /\ SplitAs("Vertical")
    /\ KeyIs("H", "Down") =>
          /\ \E rnd \in Colors : Does(split(Last.before, "Horizontal", rnd))
          /\ SplitAs("Horizontal")
    /\ KeyIs("M", "Down") => Does(merge(Last.before))
    /\ (ButtonIs("Left", "Down") /\ is_some(Last.before.hovered)) =>
          /\ ~panicked
          /\ db = [Last.before EXCEPT !.focused = unwrap(Last.before.hovered)]
    /\ LastIs("on_mouse_leave") =>
          /\ ~panicked
          /\ db = [Last.before EXCEPT !.hovered = None]
    /\ (LastIs("on_key") /\ (Last.arg[2] = "Up" \/ Last.arg[1] \notin {Some("V"), Some("H"), Some("M")})) =>
          KeepsTreeAndFocus /\ db = Last.before
    /\ (LastIs("on_mouse_button") /\ (Last.arg # <<"Left", "Down">> \/ Last.before.hovered = None)) =>
          KeepsTreeAndFocus /\ db = Last.before
    /\ (LastIs("on_mouse_motion") /\ ~panicked) =>
          /\ db.nodes = Last.before.nodes
          /\ db.focused = Last.before.focused

\* key-down V on a tree that has a Horizontal Split, with a Leaf hovered
C30_Witness ==
    /\ KeyIs("V", "Down")
    /\ ~panicked
    /\ is_some(Last.before.hovered)
    /\ \E id \in DOMAIN Last.before.nodes :
          /\ IsSplit(Last.before, id)
          /\ Last.before.nodes[id].split.direction = "Horizontal"
    /\ db.nodes[Last.before.focused].split.direction = "Vertical"
====
